---- MODULE Spec2Model ----
(***************************************************************************)
(* A model of zrpc's Server (src/lib/zrpc/server.py): the BSON wire        *)
(* documents, capture_exception, get_response, process_message and the     *)
(* serving loop of run, with the socket, the readiness callback and the    *)
(* registry as the environment.                                            *)
(***************************************************************************)
EXTENDS Integers, Sequences, FiniteSets, TLC

(***************************************************************************)
(* Bounds of the model.                                                    *)
(***************************************************************************)
\* Receives allowed when the iterator is repeat(None), which never ends.
MaxCycles == 3
\* The largest die_after passed to run.
MaxDieAfter == 2

(***************************************************************************)
(* Python values.  Every value is a tagged record; "null" is None, "obj"   *)
(* is an object BSON has no representation for, "arr" a list or tuple,     *)
(* "doc" a dict (a function from keys to values).                          *)
(***************************************************************************)
None == [t |-> "null"]
PyInt(n) == [t |-> "int", v |-> n]
PyStr(s) == [t |-> "str", v |-> s]
PyObj(n) == [t |-> "obj", v |-> n]
Arr(s) == [t |-> "arr", v |-> s]
Doc(f) == [t |-> "doc", v |-> f]

\* The empty dict.
EmptyDict == [k \in {} |-> None]

\* d with d[k] = x set, as  d[k] = x  on a dict.
SetItem(d, k, x) == [j \in DOMAIN d \cup {k} |-> IF j = k THEN x ELSE d[j]]

\* message.get(key, default)
DictGet(d, k, default) == IF k \in DOMAIN d THEN d[k] ELSE default

(***************************************************************************)
(* Exceptions.  base is the root the class derives from: "Exception", or   *)
(* "BaseException" for KeyboardInterrupt and SystemExit, which             *)
(* `except Exception` does not catch.  text is str(exc); errno is set on a *)
(* ZMQError only.                                                          *)
(***************************************************************************)
ETERM == "ETERM"
EFSM == "EFSM"
EADDRINUSE == "EADDRINUSE"
EMFILE == "EMFILE"
NoErrno == "none"

Exc(module, name, base, text, args, errno) ==
    [module |-> module, name |-> name, base |-> base, text |-> text,
     args |-> args, errno |-> errno]

NoExc == Exc("", "", "", "", Arr(<< >>), NoErrno)

ZMQError(errno) ==
    Exc("zmq.core.error", "ZMQError", "Exception", errno, Arr(<< >>), errno)
KeyboardInterrupt ==
    Exc("exceptions", "KeyboardInterrupt", "BaseException", "", Arr(<< >>), NoErrno)
SystemExit ==
    Exc("exceptions", "SystemExit", "BaseException", "", Arr(<< >>), NoErrno)
KeyError(k) ==
    Exc("exceptions", "KeyError", "Exception", k, Arr(<<PyStr(k)>>), NoErrno)
TypeError(text) ==
    Exc("exceptions", "TypeError", "Exception", text, Arr(<<PyStr(text)>>), NoErrno)
InvalidBSON ==
    Exc("bson.errors", "InvalidBSON", "Exception", "bad type code",
        Arr(<<PyStr("bad type code")>>), NoErrno)
InvalidDocument ==
    Exc("bson.errors", "InvalidDocument", "Exception", "Cannot encode object",
        Arr(<<PyStr("Cannot encode object")>>), NoErrno)

\* isinstance(exc, Exception)
IsException(exc) == exc.base = "Exception"

(***************************************************************************)
(* The wire codec.  An encoded document is a sequence of elements, one per *)
(* key, each a type code, the key and the payload; a list is encoded as a  *)
(* document keyed by position, as BSON does.                               *)
(***************************************************************************)
KeyOrder == <<"id", "method", "params", "result", "error",
              "type", "message", "args">>

TypeCode(t) == CASE t = "str" -> 2 [] t = "doc" -> 3 [] t = "arr" -> 4
                 [] t = "null" -> 10 [] t = "int" -> 16

TypeOfCode(c) == CASE c = 2 -> "str" [] c = 3 -> "doc" [] c = 4 -> "arr"
                   [] c = 10 -> "null" [] c = 16 -> "int"

KnownCodes == {2, 3, 4, 10, 16}

RECURSIVE Encodable(_)
Encodable(x) ==
    CASE x.t = "obj" -> FALSE
      [] x.t = "arr" -> \A i \in 1..Len(x.v) : Encodable(x.v[i])
      [] x.t = "doc" -> \A k \in DOMAIN x.v : Encodable(x.v[k])
      [] OTHER -> TRUE

KeysOf(d) == SelectSeq(KeyOrder, LAMBDA k : k \in DOMAIN d)

RECURSIVE EncodeElement(_, _)
EncodeElement(key, x) ==
    [code |-> TypeCode(x.t),
     key |-> key,
     data |-> CASE x.t = "null" -> << >>
                [] x.t = "arr" ->
                     [i \in 1..Len(x.v) |-> EncodeElement(ToString(i), x.v[i])]
                [] x.t = "doc" ->
                     LET ks == KeysOf(x.v)
                     IN  [i \in 1..Len(ks) |-> EncodeElement(ks[i], x.v[ks[i]])]
                [] OTHER -> <<x.v>>]

\* BSON.encode(document): the bytes, or InvalidDocument raised.
BSONencode(d) ==
    IF Encodable(Doc(d))
    THEN [ok |-> TRUE, bytes |-> EncodeElement("", Doc(d)).data, exc |-> NoExc]
    ELSE [ok |-> FALSE, bytes |-> << >>, exc |-> InvalidDocument]

RECURSIVE WellFormedBytes(_)
WellFormedBytes(bytes) ==
    \A i \in 1..Len(bytes) :
        /\ bytes[i].code \in KnownCodes
        /\ bytes[i].code \in {3, 4} => WellFormedBytes(bytes[i].data)

RECURSIVE DecodeElement(_)
DecodeElement(e) ==
    LET t == TypeOfCode(e.code)
    IN  CASE t = "null" -> None
          [] t = "arr" -> Arr([i \in 1..Len(e.data) |-> DecodeElement(e.data[i])])
          [] t = "doc" ->
               Doc([k \in {e.data[i].key : i \in 1..Len(e.data)} |->
                      DecodeElement(CHOOSE el \in {e.data[i] : i \in 1..Len(e.data)} :
                                        el.key = k)])
          [] OTHER -> [t |-> t, v |-> e.data[1]]

\* BSON(bytes).decode(): the document, or InvalidBSON raised.
BSONdecode(bytes) ==
    IF WellFormedBytes(bytes)
    THEN [ok |-> TRUE,
          doc |-> DecodeElement([code |-> 3, key |-> "", data |-> bytes]).v,
          exc |-> NoExc]
    ELSE [ok |-> FALSE, doc |-> EmptyDict, exc |-> InvalidBSON]

(***************************************************************************)
(* The registry is an opaque callable: a call returns a value or raises.   *)
(***************************************************************************)
Return(x) == [kind |-> "return", value |-> x, exc |-> NoExc]
Raise(e) == [kind |-> "raise", value |-> None, exc |-> e]
NoOutcome == [kind |-> "none", value |-> None, exc |-> NoExc]

(***************************************************************************)
(* Server.capture_exception: the current exception as an error record.     *)
(***************************************************************************)
\* traceback.format_exception_only(exc_type, exc_value)[-1].strip()
FormatExceptionOnly(exc) ==
    IF exc.text = "" THEN exc.name ELSE exc.name \o ": " \o exc.text

capture_exception_always_args(exc) ==
    [type |-> PyStr(exc.module \o "." \o exc.name),
     message |-> PyStr(FormatExceptionOnly(exc)),
     args |-> exc.args]

capture_exception(exc) ==
    LET error == [type |-> PyStr(exc.module \o "." \o exc.name),
                  message |-> PyStr(FormatExceptionOnly(exc))]
    IN  IF BSONencode([args |-> exc.args]).ok
        THEN SetItem(error, "args", exc.args)
        ELSE error

(***************************************************************************)
(* Server.get_response, given the outcome of the call of func.             *)
(***************************************************************************)
\* What get_response hands back: the bytes it returns or the exception that
\* leaves it, whether the fallback encode ran, and each exception captured
\* with the error record made of it.
Returned(bytes, fallback, captured) ==
    [raised |-> FALSE, exc |-> NoExc, bytes |-> bytes,
     fallback |-> fallback, captured |-> captured]
Raised(exc, fallback, captured) ==
    [raised |-> TRUE, exc |-> exc, bytes |-> << >>,
     fallback |-> fallback, captured |-> captured]

\* Lines 92-96: the call under `except Exception`.
DispatchNoExcept(outcome) ==
    IF outcome.kind = "return"
    THEN [raised |-> FALSE, exc |-> NoExc, result |-> outcome.value,
          error |-> None, captured |-> << >>]
    ELSE [raised |-> TRUE, exc |-> outcome.exc, result |-> None,
          error |-> None, captured |-> << >>]

\* Lines 92-96 with the exception swallowed and no error recorded.
DispatchDropsError(outcome) ==
    IF outcome.kind = "return" \/ IsException(outcome.exc)
    THEN [raised |-> FALSE, exc |-> NoExc,
          result |-> IF outcome.kind = "return" THEN outcome.value ELSE None,
          error |-> None, captured |-> << >>]
    ELSE [raised |-> TRUE, exc |-> outcome.exc, result |-> None,
          error |-> None, captured |-> << >>]

Dispatch(outcome) ==
    IF outcome.kind = "return"
    THEN [raised |-> FALSE, exc |-> NoExc, result |-> outcome.value,
          error |-> None, captured |-> << >>]
    ELSE IF IsException(outcome.exc)
    THEN LET error == capture_exception(outcome.exc)
         IN  [raised |-> FALSE, exc |-> NoExc, result |-> None,
              error |-> Doc(error),
              captured |-> <<[exc |-> outcome.exc, error |-> error]>>]
    ELSE [raised |-> TRUE, exc |-> outcome.exc, result |-> None,
          error |-> None, captured |-> << >>]

\* Lines 98-100.
Assemble(message_id, result, error) ==
    LET response == [result |-> result, error |-> error]
    IN  IF message_id # None
        THEN SetItem(response, "id", message_id)
        ELSE response

\* Lines 105-106: the response rewritten after InvalidDocument.
FallbackKeepError(response, error) ==
    SetItem(response, "result", None)

\* Lines 105-106 with the result replaced by its text instead of None.
FallbackStringifiesResult(response, error) ==
    SetItem(SetItem(response, "error", Doc(error)), "result", PyStr("repr"))

Fallback(response, error) ==
    SetItem(SetItem(response, "error", Doc(error)), "result", None)

\* Lines 102-107 without the except clause.
EncodeResponseNoFallback(response, captured) ==
    LET first == BSONencode(response)
    IN  IF first.ok
        THEN Returned(first.bytes, FALSE, captured)
        ELSE Raised(first.exc, FALSE, captured)

\* Lines 102-107.
EncodeResponse(response, captured) ==
    LET first == BSONencode(response)
    IN  IF first.ok
        THEN Returned(first.bytes, FALSE, captured)
        ELSE LET error == capture_exception(first.exc)
                 cap == Append(captured, [exc |-> first.exc, error |-> error])
                 second == BSONencode(Fallback(response, error))
             IN  IF second.ok
                 THEN Returned(second.bytes, TRUE, cap)
                 ELSE Raised(second.exc, TRUE, cap)

get_response(message_id, outcome) ==
    LET d == Dispatch(outcome)
    IN  IF d.raised
        THEN Raised(d.exc, FALSE, d.captured)
        ELSE EncodeResponse(Assemble(message_id, d.result, d.error), d.captured)

(***************************************************************************)
(* Server.process_message, given the outcome the registry call would have. *)
(* called tells whether the registry was invoked.                          *)
(***************************************************************************)
\* Lines 128-130: the arguments func is called with, the method name and
\* then the params in order.
CallArgsNoMethod(message) == message["params"].v

CallArgs(message) == <<message["method"]>> \o message["params"].v

\* Lines 121-130 with a missing params read as no params.
process_message_lenient(message, outcome) ==
    IF "method" \notin DOMAIN message
    THEN [called |-> FALSE, args |-> << >>,
          r |-> Raised(KeyError("method"), FALSE, << >>)]
    ELSE [called |-> TRUE, args |-> <<message["method"]>>,
          r |-> get_response(DictGet(message, "id", None), outcome)]

process_message(message, outcome) ==
    IF "method" \notin DOMAIN message
    THEN [called |-> FALSE, args |-> << >>,
          r |-> Raised(KeyError("method"), FALSE, << >>)]
    ELSE IF "params" \notin DOMAIN message
    THEN [called |-> FALSE, args |-> << >>,
          r |-> Raised(KeyError("params"), FALSE, << >>)]
    ELSE IF message["params"].t # "arr"
    THEN [called |-> FALSE, args |-> << >>,
          r |-> Raised(TypeError("argument after * must be a sequence"),
                       FALSE, << >>)]
    ELSE [called |-> TRUE, args |-> CallArgs(message),
          r |-> get_response(DictGet(message, "id", None), outcome)]

(***************************************************************************)
(* The environment's inputs.                                               *)
(***************************************************************************)
\* Request documents clients send: with and without id, with a null id,
\* without method, without params, with params that is no sequence.
RequestDocs ==
    { [id |-> PyInt(7), method |-> PyStr("add"),
       params |-> Arr(<<PyInt(2), PyInt(3)>>)],
      [method |-> PyStr("fail"), params |-> Arr(<< >>)],
      [id |-> None, method |-> PyStr("add"), params |-> Arr(<< >>)],
      [id |-> PyStr("a"), method |-> PyStr("fail"), params |-> Arr(<< >>)],
      [id |-> PyInt(7), params |-> Arr(<< >>)],
      [method |-> PyStr("add")],
      [id |-> PyInt(7), method |-> PyStr("add"), params |-> PyInt(5)] }

\* Bytes that are no BSON document.
Garbage == <<[code |-> 255, key |-> "", data |-> << >>]>>

\* What socket.recv() can return.
WireInputs == {BSONencode(d).bytes : d \in RequestDocs} \cup {Garbage}

\* What a call of the registry can do: return an encodable value, return a
\* value BSON cannot encode, raise an Exception whose args are or are not
\* encodable, or be left by a KeyboardInterrupt or a SystemExit.
RegistryOutcomes ==
    { Return(PyInt(5)), Return(None), Return(PyObj(1)),
      Return(Arr(<<PyInt(1), PyObj(2)>>)),
      Raise(Exc("exceptions", "ValueError", "Exception", "boom",
                Arr(<<PyStr("boom")>>), NoErrno)),
      Raise(Exc("app", "Failure", "Exception", "",
                Arr(<<PyObj(3)>>), NoErrno)),
      Raise(KeyboardInterrupt), Raise(SystemExit) }

\* What a blocking socket call can raise.
TransportEvents == {ZMQError(ETERM), ZMQError(EFSM), KeyboardInterrupt}

\* die_after as passed to run: None or a count.
DieAfterChoices == {None} \cup {PyInt(n) : n \in 0..MaxDieAfter}

(***************************************************************************)
(* Server.run                                                              *)
(***************************************************************************)
VARIABLES
    connect,     \* self.connect
    die_after,   \* the argument of run
    pc,          \* where run is: "start", "recv", "process", "send", "done"
    socket,      \* the REP socket: made, how attached, times closed
    notified,    \* what the callback was told, in order
    iterator,    \* the loop's iterator
    received,    \* the bytes socket.recv() returned last
    message,     \* the decoded request
    outcome,     \* what the registry call for message did
    response,    \* the bytes process_message returned
    fallback,    \* whether get_response took its fallback encode
    captured,    \* the exceptions get_response captured, with their records
    recvs,       \* completed socket.recv() calls
    sends,       \* completed socket.send() calls
    calls,       \* calls of the registry
    lastCall,    \* the arguments of the last call of the registry
    prevRaised,  \* whether the registry raised for the request last answered
    status,      \* "running", "returned" or "raised"
    escaped,     \* the exception that left run
    cause,       \* the exception that ended the run, NoExc when none did
    handled,     \* the except clause of run that took the exception
    logged       \* the exception run_logger.catch_exceptions() caught

vars == <<connect, die_after, pc, socket, notified, iterator, received, message,
          outcome, response, fallback, captured, recvs, sends, calls, lastCall,
          prevRaised, status, escaped, cause, handled, logged>>

NoSocket == [made |-> FALSE, attached |-> "none", closes |-> 0]
NoIterator == [bounded |-> TRUE, left |-> 0]

\* bool(x) for None and ints.
Truthy(x) == ~(x.t = "null") /\ ~(x.t = "int" /\ x.v = 0)

\* Line 157: die_after and repeat(None, die_after) or repeat(None)
MakeIterator(d) ==
    IF Truthy(d)
    THEN [bounded |-> TRUE, left |-> d.v]
    ELSE [bounded |-> FALSE, left |-> 0]

\* next(iterator) at the head of the for loop.
IterNext(it) ==
    IF it.bounded /\ it.left = 0
    THEN [stop |-> TRUE, it |-> it]
    ELSE [stop |-> FALSE,
          it |-> IF it.bounded THEN [it EXCEPT !.left = @ - 1] ELSE it]

\* Lines 160-162: the call that follows each call of the loop body.
LoopBodySkipsSend(at) ==
    CASE at = "recv" -> "process"
      [] OTHER -> "recv"

LoopBody(at) ==
    CASE at = "recv" -> "process"
      [] at = "process" -> "send"
      [] OTHER -> "recv"

\* callback.catch_exceptions() leaving the attach block with exc: the
\* failure is forwarded to the callback and exc is raised again (line 155
\* reads socket, which is unbound had the with block swallowed a failure of
\* self.context.socket).
CallbackCatch(exc) == [notify |-> "failure", raises |-> exc]

\* Lines 149-154: the call that attaches the socket, by self.connect.
AttachCallAlwaysBind(c) == "bind"

AttachCall(c) == IF c THEN "connect" ELSE "bind"

\* Lines 147-155: what the callback is told, exc being what the attach block
\* raised (NoExc: nothing, and callback.send(socket) is reached).
AttachNotificationsSendFirst(exc) ==
    IF exc = NoExc THEN <<"socket">> ELSE <<"socket", CallbackCatch(exc).notify>>

AttachNotifications(exc) ==
    IF exc = NoExc THEN <<"socket">> ELSE <<CallbackCatch(exc).notify>>

\* Lines 163-169: which except clause takes exc, and whether exc goes on.
ExceptClausesAlwaysRaise(exc) ==
    IF exc.name = "ZMQError"
    THEN [clause |-> "ZMQError", propagates |-> TRUE]
    ELSE IF exc.name = "KeyboardInterrupt"
    THEN [clause |-> "KeyboardInterrupt", propagates |-> FALSE]
    ELSE [clause |-> "none", propagates |-> exc # NoExc]

ExceptClauses(exc) ==
    IF exc.name = "ZMQError"
    THEN [clause |-> "ZMQError", propagates |-> exc.errno # ETERM]
    ELSE IF exc.name = "KeyboardInterrupt"
    THEN [clause |-> "KeyboardInterrupt", propagates |-> FALSE]
    ELSE [clause |-> "none", propagates |-> exc # NoExc]

\* closing(socket).__exit__
Closing(sock) == [sock EXCEPT !.closes = @ + 1]

\* run_logger.catch_exceptions().__exit__ (logbook): the exception that
\* reaches it, of any class, is logged with logger.exception and then
\* suppressed, so the with statement of line 158 ends normally.
RunLoggerCatch(exc) == TRUE

\* Leaving the try of lines 159-169 with exc (NoExc: the loop ended), through
\* closing(socket) and run_logger.catch_exceptions().
LeaveLoop(exc) ==
    LET c == ExceptClauses(exc)
    IN  /\ pc' = "done"
        /\ cause' = exc
        /\ handled' = c.clause
        /\ socket' = Closing(socket)
        /\ logged' = IF c.propagates THEN exc ELSE NoExc
        /\ status' = IF c.propagates /\ ~RunLoggerCatch(exc)
                     THEN "raised" ELSE "returned"
        /\ escaped' = IF c.propagates /\ ~RunLoggerCatch(exc)
                      THEN exc ELSE NoExc

Init ==
    /\ connect \in BOOLEAN
    /\ die_after \in DieAfterChoices
    /\ pc = "start"
    /\ socket = NoSocket
    /\ notified = << >>
    /\ iterator = NoIterator
    /\ received = << >>
    /\ message = EmptyDict
    /\ outcome = NoOutcome
    /\ response = << >>
    /\ fallback = FALSE
    /\ captured = << >>
    /\ recvs = 0
    /\ sends = 0
    /\ calls = 0
    /\ lastCall = << >>
    /\ prevRaised = FALSE
    /\ status = "running"
    /\ escaped = NoExc
    /\ cause = NoExc
    /\ handled = "none"
    /\ logged = NoExc

\* Lines 147-158: the socket is made and attached, the callback told, the
\* iterator made and the loop entered.
RunAttach ==
    /\ pc = "start"
    /\ \/ \* self.context.socket(zmq.REP) raises
          LET c == CallbackCatch(ZMQError(EMFILE))
          IN  /\ notified' = notified \o AttachNotifications(ZMQError(EMFILE))
              /\ pc' = "done"
              /\ status' = "raised"
              /\ escaped' = c.raises
              /\ cause' = c.raises
              /\ UNCHANGED <<socket, iterator, handled, logged>>
       \/ \* socket.connect or socket.bind raises
          LET c == CallbackCatch(ZMQError(EADDRINUSE))
          IN  /\ socket' = [NoSocket EXCEPT !.made = TRUE]
              /\ notified' = notified \o AttachNotifications(ZMQError(EADDRINUSE))
              /\ pc' = "done"
              /\ status' = "raised"
              /\ escaped' = c.raises
              /\ cause' = c.raises
              /\ UNCHANGED <<iterator, handled, logged>>
       \/ \* attached
          LET sock == [made |-> TRUE,
                       attached |-> AttachCall(connect),
                       closes |-> 0]
              n == IterNext(MakeIterator(die_after))
          IN  /\ notified' = notified \o AttachNotifications(NoExc)
              /\ iterator' = n.it
              /\ IF n.stop
                 THEN /\ pc' = "done"
                      /\ socket' = Closing(sock)
                      /\ status' = "returned"
                      /\ UNCHANGED <<escaped, cause, handled, logged>>
                 ELSE /\ pc' = LoopBody("start")
                      /\ socket' = sock
                      /\ UNCHANGED <<status, escaped, cause, handled, logged>>
    /\ UNCHANGED <<connect, die_after, received, message, outcome, response,
                   fallback, captured, recvs, sends, calls, lastCall,
                   prevRaised>>

\* Line 161: socket.recv() returns bytes, which are decoded, or raises.
LoopRecv ==
    /\ pc = "recv"
    /\ \/ \E bytes \in WireInputs :
            LET d == BSONdecode(bytes)
            IN  /\ iterator.bounded \/ recvs < MaxCycles
                /\ recvs' = recvs + 1
                /\ received' = bytes
                /\ IF d.ok
                   THEN /\ message' = d.doc
                        /\ pc' = LoopBody("recv")
                        /\ UNCHANGED <<socket, status, escaped, cause, handled,
                                       logged>>
                   ELSE /\ LeaveLoop(d.exc)
                        /\ UNCHANGED message
       \/ \E exc \in TransportEvents :
            /\ LeaveLoop(exc)
            /\ UNCHANGED <<received, message, recvs>>
    /\ UNCHANGED <<connect, die_after, notified, iterator, outcome, response,
                   fallback, captured, sends, calls, lastCall, prevRaised>>

\* Line 162, self.process_message(message): the registry is called and the
\* response built, or an exception leaves the loop.
LoopProcess ==
    /\ pc = "process"
    /\ \E o \in RegistryOutcomes :
         LET p == process_message(message, o)
         IN  /\ calls' = IF p.called THEN calls + 1 ELSE calls
             /\ lastCall' = IF p.called THEN p.args ELSE lastCall
             /\ outcome' = IF p.called THEN o ELSE NoOutcome
             /\ fallback' = p.r.fallback
             /\ captured' = p.r.captured
             /\ IF p.r.raised
                THEN /\ LeaveLoop(p.r.exc)
                     /\ UNCHANGED response
                ELSE /\ response' = p.r.bytes
                     /\ pc' = LoopBody("process")
                     /\ UNCHANGED <<socket, status, escaped, cause, handled,
                                    logged>>
    /\ UNCHANGED <<connect, die_after, notified, iterator, received, message,
                   recvs, sends, prevRaised>>

\* Line 162, socket.send(...), and the next turn of the for loop.
LoopSend ==
    /\ pc = "send"
    /\ \/ LET n == IterNext(iterator)
          IN  /\ sends' = sends + 1
              /\ prevRaised' = (outcome.kind = "raise")
              /\ iterator' = n.it
              /\ IF n.stop
                 THEN LeaveLoop(NoExc)
                 ELSE /\ pc' = LoopBody("send")
                      /\ UNCHANGED <<socket, status, escaped, cause, handled,
                                     logged>>
       \/ \E exc \in TransportEvents :
            /\ LeaveLoop(exc)
            /\ UNCHANGED <<sends, prevRaised, iterator>>
    /\ UNCHANGED <<connect, die_after, notified, received, message, outcome,
                   response, fallback, captured, recvs, calls, lastCall>>

Next == RunAttach \/ LoopRecv \/ LoopProcess \/ LoopSend

Spec == Init /\ [][Next]_vars

(***************************************************************************)
(* The properties.                                                         *)
(***************************************************************************)
\* The response document a client decodes from the bytes in response.
ResponseDoc == BSONdecode(response).doc

\* The error record of a captured InvalidDocument, as it reads on the wire.
EncodingErrorRecord ==
    Doc([type |-> PyStr("bson.errors.InvalidDocument"),
         message |-> PyStr("InvalidDocument: Cannot encode object"),
         args |-> Arr(<<PyStr("Cannot encode object")>>)])

\* C1: whenever a response has been built for the request in message, the
\* response has an id exactly when the request has one, and then the same
\* value.
C1_IdMirrored ==
    pc = "send" =>
        /\ "id" \in DOMAIN message =>
               "id" \in DOMAIN ResponseDoc /\ ResponseDoc["id"] = message["id"]
        /\ "id" \notin DOMAIN message => "id" \notin DOMAIN ResponseDoc

\* C2 as stated: whenever the registry raises for a request, whatever it
\* raises, the response is handed to send; a send that leaves budget goes on
\* to the next receive; and a request after one whose dispatch raised, whose
\* own call returns an encodable value, gets that value with a null error.
C2_AnyRaiseAnswered ==
    [][ /\ pc = "process" /\ outcome'.kind = "raise" =>
               pc' = "send" /\ BSONdecode(response').doc["error"] # None
        /\ pc = "send" /\ sends' = sends + 1
              /\ ~(Truthy(die_after) /\ sends' = die_after.v) =>
               pc' = "recv"
        /\ pc = "process" /\ prevRaised /\ outcome'.kind = "return"
              /\ Encodable(outcome'.value) =>
               /\ pc' = "send"
               /\ BSONdecode(response').doc["result"] = outcome'.value
               /\ BSONdecode(response').doc["error"] = None ]_vars

\* C2, amended: the same for a registry call that raises an exception
\* derived from Exception; one that is not (KeyboardInterrupt, SystemExit)
\* ends the loop with no response for the request.
C2_ExceptionAnswered ==
    [][ /\ pc = "process" /\ outcome'.kind = "raise" =>
               IF IsException(outcome'.exc)
               THEN /\ pc' = "send"
                    /\ BSONdecode(response').doc["result"] = None
                    /\ BSONdecode(response').doc["error"] # None
               ELSE pc' = "done" /\ sends' = sends /\ response' = response
        /\ pc = "send" /\ sends' = sends + 1
              /\ ~(Truthy(die_after) /\ sends' = die_after.v) =>
               pc' = "recv"
        /\ pc = "process" /\ prevRaised /\ outcome'.kind = "return"
              /\ Encodable(outcome'.value) =>
               /\ pc' = "send"
               /\ BSONdecode(response').doc["result"] = outcome'.value
               /\ BSONdecode(response').doc["error"] = None ]_vars

\* C2's case: a request received after one whose dispatch raised is being
\* answered with its normal result.
C2_Witness ==
    /\ pc = "send" /\ prevRaised /\ sends >= 1
    /\ outcome = Return(PyInt(5))
    /\ ResponseDoc["result"] = PyInt(5) /\ ResponseDoc["error"] = None

\* C3 as stated: every call of get_response, whatever the registry call
\* does, returns bytes that decode to a document with result and error.
C3_NeverRaises ==
    [][ pc = "process" /\ calls' = calls + 1 =>
          /\ pc' = "send"
          /\ BSONdecode(response').ok
          /\ {"result", "error"} \subseteq DOMAIN BSONdecode(response').doc ]_vars

\* C3, amended: get_response returns such bytes whenever the registry call
\* returns a value, encodable or not, or raises an exception derived from
\* Exception; an exception that is not leaves get_response.
C3_ReturnsBytesUnlessBaseException ==
    [][ pc = "process" /\ calls' = calls + 1 =>
          IF outcome'.kind = "return" \/ IsException(outcome'.exc)
          THEN /\ pc' = "send"
               /\ BSONdecode(response').ok
               /\ {"result", "error"} \subseteq DOMAIN BSONdecode(response').doc
          ELSE pc' = "done" /\ cause' = outcome'.exc ]_vars

\* C3's case: the registry returned a value BSON cannot encode and
\* get_response returned a decodable document all the same.
C3_Witness ==
    /\ pc = "send" /\ outcome = Return(PyObj(1))
    /\ BSONdecode(response).ok
    /\ ResponseDoc["result"] = None

\* C4: after the fallback encode the response has a null result, the error
\* record of the encoding failure and the request's id as any response has
\* it, and is what is handed to send; an InvalidDocument never ends the loop.
C4_FallbackResponse ==
    /\ [](pc = "send" /\ fallback =>
            /\ ResponseDoc["result"] = None
            /\ ResponseDoc["error"] = EncodingErrorRecord
            /\ "id" \in DOMAIN ResponseDoc <=> DictGet(message, "id", None) # None
            /\ "id" \in DOMAIN ResponseDoc => ResponseDoc["id"] = message["id"])
    /\ [](cause.name # "InvalidDocument")
    /\ [][ /\ pc = "process" /\ fallback' => pc' = "send"
           /\ pc = "send" /\ sends' = sends + 1 => response' = response ]_vars

\* C4's case: a response built by the fallback for a request with an id.
C4_Witness ==
    /\ pc = "send" /\ fallback
    /\ "id" \in DOMAIN message /\ "id" \in DOMAIN ResponseDoc
    /\ ~Encodable(outcome.value)

\* C5: every error record capture_exception made has args exactly when the
\* exception's args can be encoded, then equal to them, and has type and
\* message either way.
C5_ArgsIffEncodable ==
    \A i \in 1..Len(captured) :
        LET exc == captured[i].exc
            error == captured[i].error
        IN  /\ "args" \in DOMAIN error <=> Encodable(exc.args)
            /\ "args" \in DOMAIN error => error["args"] = exc.args
            /\ {"type", "message"} \subseteq DOMAIN error
            /\ error["type"].t = "str" /\ error["message"].t = "str"

\* C5's case: an exception whose args cannot be encoded was captured and
\* its record, without args, is in the response.
C5_Witness ==
    /\ pc = "send" /\ Len(captured) = 1
    /\ ~Encodable(captured[1].exc.args)
    /\ DOMAIN captured[1].error = {"type", "message"}
    /\ ResponseDoc["error"] = Doc(captured[1].error)

\* C6 as stated: with a count N as die_after there is never an (N+1)-th
\* receive, and a run that ends with no signal, interrupt or failure has
\* made exactly N receives and N sends, closed the socket and returned.
C6_ExactlyNCycles ==
    die_after.t = "int" =>
        /\ recvs <= die_after.v
        /\ pc = "done" /\ cause = NoExc =>
              /\ recvs = die_after.v /\ sends = die_after.v
              /\ socket.closes = 1
              /\ status = "returned"

\* C7: a run ended by ZMQError(ETERM) or by KeyboardInterrupt in the loop
\* has returned, with the socket closed, nothing raised and nothing caught
\* as an uncaught exception.
C7_CleanShutdown ==
    pc = "done" /\ (cause = ZMQError(ETERM) \/ cause = KeyboardInterrupt) =>
        /\ status = "returned"
        /\ escaped = NoExc
        /\ logged = NoExc
        /\ socket.closes = 1

\* C7's case: the termination signal came while the server was blocked on
\* a receive, after a request had been answered.
C7_Witness ==
    /\ pc = "done" /\ cause = ZMQError(ETERM)
    /\ sends >= 1 /\ recvs = sends
    /\ status = "returned"

\* C8 as stated: a run whose loop was ended by a ZMQError other than ETERM
\* has raised that error to its caller.
C8_FatalPropagates ==
    pc = "done" /\ handled = "ZMQError" /\ cause.errno # ETERM =>
        status = "raised" /\ escaped = cause

\* C9 as stated: once run has ended and had made a socket, the socket has
\* been closed exactly once; it is never closed twice.
C9_ClosedExactlyOnce ==
    /\ socket.closes <= 1
    /\ pc = "done" /\ socket.made => socket.closes = 1

\* C10: completed receives and sends alternate, a receive first: there is
\* one unanswered request while it is processed or sent, none while the
\* server waits in recv.
C10_Alternation ==
    /\ recvs - sends \in {0, 1}
    /\ pc = "recv" => recvs = sends
    /\ pc \in {"process", "send"} => recvs = sends + 1

\* C10's case: the second request is in flight after the first was answered.
C10_Witness ==
    pc = "send" /\ recvs = 2 /\ sends = 1

\* The termination signal and the interrupt.
Signals == {ZMQError(ETERM), KeyboardInterrupt}

\* C11 as stated: a run ended by the termination signal or an interrupt has
\* sent a response for every request it received.
C11_NoRequestAbandoned ==
    pc = "done" /\ cause \in Signals => recvs = sends

\* C11, amended: a signal ends the loop at the call it is raised in.  Raised
\* in recv, every request received has been answered; raised during
\* dispatch or in send, the one request in flight is left unanswered, and
\* never more than that one.
C11_SignalEndsLoopWhereRaised ==
    /\ [](pc = "done" /\ cause \in Signals => recvs - sends \in {0, 1})
    /\ [][ pc' = "done" /\ cause' \in Signals =>
             /\ pc = "recv" => recvs' = sends' /\ recvs' = recvs
             /\ pc \in {"process", "send"} =>
                    recvs' = sends' + 1 /\ sends' = sends ]_vars

\* C11's case: an interrupt during the dispatch of the second request ended
\* the run with that request unanswered.
C11_Witness ==
    /\ pc = "done" /\ cause = KeyboardInterrupt
    /\ outcome = Raise(KeyboardInterrupt)
    /\ recvs = 2 /\ sends = 1 /\ calls = 2

\* C12: once the attach block of run is over the callback has been told
\* exactly one thing, the socket if the socket was attached and the failure
\* if it was not, and nothing after the attach block tells it anything more.
C12_NotifiedOnce ==
    /\ [](pc = "start" => notified = << >>)
    /\ [](pc # "start" =>
            /\ Len(notified) = 1
            /\ notified[1] = "socket" <=> socket.attached # "none"
            /\ notified[1] = "failure" <=> socket.attached = "none")
    /\ [][pc # "start" => notified' = notified]_vars

\* C12's case: bind or connect failed on a socket that was made, and the
\* callback was told the failure and only that.
C12_Witness ==
    /\ pc = "done" /\ socket.made /\ socket.attached = "none"
    /\ notified = <<"failure">>

\* C13: a request whose bytes do not decode, or whose document has no
\* method or no params, ends the loop in the step that meets it: nothing is
\* sent for it, the registry is not called for it, and no step follows the
\* end of the run, whatever is left of the budget.
C13_MalformedEndsLoop ==
    /\ [][ ( \/ pc = "recv" /\ recvs' = recvs + 1 /\ ~BSONdecode(received').ok
             \/ pc = "process" /\ {"method", "params"} \ DOMAIN message # {} )
           => ( /\ pc' = "done"
                /\ sends' = sends /\ sends' = recvs' - 1
                /\ calls' = calls
                /\ response' = response ) ]_vars
    /\ [][pc # "done"]_vars

\* C13's case: under an unbounded budget the second request had no params;
\* the run ended with one request answered and the registry called once.
C13_Witness ==
    /\ pc = "done" /\ die_after = None
    /\ cause = KeyError("params")
    /\ recvs = 2 /\ sends = 1 /\ calls = 1

\* C14: in every response get_response produces, error is non-null exactly
\* when the registry call raised or the first encode of the response failed;
\* when the call returned and the response encoded, error is null and result
\* is the value the call returned.
C14_ErrorIffFailed ==
    pc = "send" =>
        /\ BSONdecode(response).ok
        /\ {"result", "error"} \subseteq DOMAIN ResponseDoc
        /\ ResponseDoc["error"] # None <=> (outcome.kind = "raise" \/ fallback)
        /\ (outcome.kind = "return" /\ ~fallback) =>
               /\ ResponseDoc["error"] = None
               /\ ResponseDoc["result"] = outcome.value

C14_Witness ==
    /\ pc = "send" /\ sends = 1 /\ recvs = 2
    /\ outcome = Return(PyInt(5)) /\ ~fallback
    /\ ResponseDoc["result"] = PyInt(5) /\ ResponseDoc["error"] = None
    /\ prevRaised

\* C15: a run goes from Unbound (no socket attached, nothing received) to
\* Serving to Terminated and never back. The socket is attached by connect
\* when self.connect is true and by bind otherwise, once, and not again.
\* The callback is sent the socket only when that call succeeded, and
\* before anything is received. Every recv and send is made on a socket
\* that is attached and not closed.
C15_RunOrder ==
    /\ [](socket.attached \in {"none", IF connect THEN "connect" ELSE "bind"})
    /\ [](pc = "start" =>
            socket = NoSocket /\ notified = << >> /\ recvs = 0 /\ sends = 0)
    /\ [](pc \in {"recv", "process", "send"} =>
            /\ socket.attached # "none"
            /\ socket.closes = 0
            /\ notified = <<"socket">>)
    /\ []((socket.attached = "none" \/ notified # <<"socket">>) =>
            recvs = 0 /\ sends = 0)
    /\ [](\A i \in 1..Len(notified) :
            notified[i] = "socket" => socket.attached # "none")
    /\ [](socket.closes > 0 => pc = "done")
    /\ [][ /\ pc # "start" => socket'.attached = socket.attached
           /\ (recvs' # recvs \/ sends' # sends) =>
                 /\ socket.attached # "none" /\ socket.closes = 0
                 /\ notified = <<"socket">>
           /\ pc' # pc =>
                 \/ pc = "start" /\ pc' \in {"recv", "done"}
                 \/ pc = "recv" /\ pc' \in {"process", "done"}
                 \/ pc = "process" /\ pc' \in {"send", "done"}
                 \/ pc = "send" /\ pc' \in {"recv", "done"} ]_vars

\* C15's case: a connecting server went through every stage, it served two
\* requests on the connected socket and closed it at the end.
C15_Witness ==
    /\ pc = "done" /\ connect
    /\ socket.attached = "connect" /\ socket.closes = 1
    /\ notified = <<"socket">>
    /\ recvs = 2 /\ sends = 2

\* C16: the step that processes a received request with a method and a
\* sequence of params calls the registry once, with that method and then
\* those params in order, whatever earlier requests did; no other step
\* calls it, so a raise or the fallback encode brings no second call; and
\* the registry has been called as often as requests were received
\* whenever a response is sent.
C16_CalledOncePerRequest ==
    /\ [][ ( /\ pc = "process"
             /\ {"method", "params"} \subseteq DOMAIN message
             /\ message["params"].t = "arr" )
           => ( /\ calls' = calls + 1
                /\ Len(lastCall') = Len(message["params"].v) + 1
                /\ lastCall'[1] = message["method"]
                /\ \A i \in 1..Len(message["params"].v) :
                      lastCall'[i + 1] = message["params"].v[i] ) ]_vars
    /\ [][ pc # "process" => (calls' = calls /\ lastCall' = lastCall) ]_vars
    /\ [](pc = "send" => calls = recvs)
    /\ [](calls <= recvs)

\* C16's case: the first call raised and was answered through the fallback
\* encode, and the second request, add(2, 3), was given to the registry
\* once, as sent.
C16_Witness ==
    /\ pc = "send" /\ recvs = 2 /\ calls = 2 /\ sends = 1
    /\ prevRaised
    /\ lastCall = <<PyStr("add"), PyInt(2), PyInt(3)>>
    /\ fallback

\* C17: no response the server sends has both a result and an error that
\* are not null; a value the registry returned that could not be encoded is
\* replaced by null in the response that carries the encoding error.
C17_ResultXorError ==
    /\ [](pc = "send" =>
            ~(ResponseDoc["result"] # None /\ ResponseDoc["error"] # None))
    /\ [](pc = "send" /\ fallback =>
            ResponseDoc["result"] = None /\ ResponseDoc["error"] # None)
    /\ [][sends' = sends + 1 =>
            ~(ResponseDoc["result"] # None /\ ResponseDoc["error"] # None)]_vars

\* C17's case: the registry returned a value BSON cannot encode, and the
\* response sent for it has the encoding error and a null result.
C17_Witness ==
    /\ pc \in {"recv", "done"} /\ sends >= 1
    /\ outcome = Return(PyObj(1)) /\ fallback
    /\ ResponseDoc["result"] = None
    /\ ResponseDoc["error"] = EncodingErrorRecord

====
